---------------------------- MODULE Spec2Model ----------------------------
(***************************************************************************)
(* The grade-grid-base portal: the relational schema, the triggers and the *)
(* row-level-security (RLS) policies of the migration                      *)
(* (src/unnamed/part_000), and the statements the dashboards issue against *)
(* them (src/src/components/dashboard/TeacherDashboard.tsx,                *)
(* src/src/pages/Dashboard.tsx).                                           *)
(*                                                                         *)
(* Every client statement runs as a non-owner role, so PostgreSQL applies  *)
(* the policies of every table the statement reads, including the tables   *)
(* read by sub-SELECTs inside a policy expression: a policy that reads     *)
(* public.profiles sees only the rows the profiles SELECT policy shows the *)
(* caller.  Only the trigger function handle_new_user is SECURITY DEFINER. *)
(*                                                                         *)
(* Columns no policy, constraint or property below reads (created_at,     *)
(* updated_at, posts.title, posts.content, attendance.id) are left out of  *)
(* the rows; the trigger update_profiles_updated_at writes updated_at only.*)
(***************************************************************************)
EXTENDS Integers, FiniteSets, Sequences, TLC

VARIABLES authUsers, classes, profiles, posts, attendance, last, view

vars == <<authUsers, classes, profiles, posts, attendance, last, view>>

----------------------------------------------------------------------------
(* Bounds of the model *)

MaxUsers == 2
MaxDates == 1
MaxPosts == 1

NULL == 0
NullText == "<null>"

UserIds == 1..MaxUsers
(* INSERT INTO public.classes (name) VALUES ... *)
SeedClassNames == <<"Class A", "Class B", "Class C">>
ClassIds == 1..Len(SeedClassNames)
Dates == 1..MaxDates
PostIds == 1..MaxPosts

user_role == {"student", "teacher"}
attendance_status == {"present", "absent"}

(* Values a client may send where the schema expects a user_role *)
RoleInputs == user_role \cup {NullText, "admin"}
MetaNames == {NullText, "n"}
Emails == {NullText, "e"}
(* The display name a client writes in a profile row *)
Names == {"n"}

SeedClasses == {[id |-> c, name |-> SeedClassNames[c]] : c \in ClassIds}

----------------------------------------------------------------------------
(* Helpers over the tables *)

ProfileIds == {p.id : p \in profiles}
ProfileRows(u) == {p \in profiles : p.id = u}
ClassRowIds == {c.id : c \in classes}
COALESCE(a, b) == IF a # NullText THEN a ELSE b

----------------------------------------------------------------------------
(* RLS policies: profiles *)

(* Variant: USING (auth.uid() IS NOT NULL), every signed-in user reads     *)
(* every profile.                                                          *)
ProfilesSelectPolicy_AnySignedIn(uid, r) == uid # NULL

ProfilesSelectPolicy(uid, r) == uid = r.id

ProfilesUpdatePolicy(uid, r) == uid = r.id

(* No INSERT and no DELETE policy exists on profiles: with RLS enabled the *)
(* default is to deny.                                                     *)
ProfilesInsertPolicy(uid, r) == FALSE

ProfilesDeletePolicy(uid, r) == FALSE

(* The rows of profiles a statement of caller uid can read, also inside a  *)
(* policy's sub-SELECT.                                                    *)
VisibleProfiles(uid) == {r \in profiles : ProfilesSelectPolicy(uid, r)}

(* SELECT class_id FROM public.profiles WHERE id = auth.uid() *)
OwnClassIds(uid) ==
  {p.class_id : p \in {q \in VisibleProfiles(uid) : q.id = uid}}

(* ... WHERE id = auth.uid() AND role = 'teacher' *)
OwnTeacherClassIds(uid) ==
  {p.class_id :
     p \in {q \in VisibleProfiles(uid) : q.id = uid /\ q.role = "teacher"}}

(* x IN (subquery): never true for a NULL x or through a NULL element *)
SqlIn(x, S) == x # NULL /\ x \in (S \ {NULL})

----------------------------------------------------------------------------
(* RLS policies: classes *)

(* Variant: the sub-SELECT without WHERE id = auth.uid(), read with the    *)
(* owner's rights.                                                         *)
ClassesSelectPolicy_AnyProfile(uid, c) ==
  SqlIn(c.id, {p.class_id : p \in profiles})

ClassesSelectPolicy(uid, c) == SqlIn(c.id, OwnClassIds(uid))

SelectClasses(uid) == {c \in classes : ClassesSelectPolicy(uid, c)}

----------------------------------------------------------------------------
(* RLS policies: posts *)

(* Variant: USING (teacher_id = auth.uid() OR class_id IN (...)), authors   *)
(* keep reading their own posts.                                           *)
PostsSelectPolicy_OrAuthor(uid, p) ==
  p.teacher_id = uid \/ SqlIn(p.class_id, OwnClassIds(uid))

PostsSelectPolicy(uid, p) == SqlIn(p.class_id, OwnClassIds(uid))

(* Variant: the sub-SELECT without AND role = 'teacher' *)
PostsInsertPolicy_NoRole(uid, p) ==
  p.teacher_id = uid /\ SqlIn(p.class_id, OwnClassIds(uid))

(* Variant: without teacher_id = auth.uid() *)
PostsInsertPolicy_NoOwner(uid, p) ==
  SqlIn(p.class_id, OwnTeacherClassIds(uid))

PostsInsertPolicy(uid, p) ==
  p.teacher_id = uid /\ SqlIn(p.class_id, OwnTeacherClassIds(uid))

PostsUpdatePolicy(uid, p) == p.teacher_id = uid

PostsDeletePolicy(uid, p) == p.teacher_id = uid

----------------------------------------------------------------------------
(* RLS policies: attendance *)

(* SELECT p1.id FROM profiles p1 JOIN profiles p2                          *)
(*   ON p1.class_id = p2.class_id                                          *)
(*   WHERE p2.id = auth.uid() AND p2.role = 'teacher'                      *)
(* Both p1 and p2 range over the profiles rows the caller can read.        *)
TeacherClassStudents(uid) ==
  {p1.id : p1 \in {q \in VisibleProfiles(uid) :
                     \E p2 \in VisibleProfiles(uid) :
                        /\ q.class_id # NULL
                        /\ q.class_id = p2.class_id
                        /\ p2.id = uid
                        /\ p2.role = "teacher"}}

(* Variant: the student policy keyed on the class instead of the row's     *)
(* student: every row of a classmate.                                      *)
StudentsViewOwnAttendance_Class(uid, a) ==
  \E me \in ProfileRows(uid), st \in ProfileRows(a.student_id) :
     me.class_id = st.class_id

StudentsViewOwnAttendance(uid, a) == a.student_id = uid

TeachersViewAttendance(uid, a) == a.student_id \in TeacherClassStudents(uid)

AttendanceInsertPolicy(uid, a) == a.student_id \in TeacherClassStudents(uid)

AttendanceUpdatePolicy(uid, a) == a.student_id \in TeacherClassStudents(uid)

(* Permissive policies of one command are OR-ed *)
AttendanceSelectPolicy(uid, a) ==
  StudentsViewOwnAttendance(uid, a) \/ TeachersViewAttendance(uid, a)

SelectAttendance(uid) == {a \in attendance : AttendanceSelectPolicy(uid, a)}

SelectProfiles(uid) == VisibleProfiles(uid)

SelectPosts(uid) == {p \in posts : PostsSelectPolicy(uid, p)}

----------------------------------------------------------------------------
(* The state of one TeacherDashboard: the profile prop, the useState cells *)
(* (posts, students, attendance, loading, newPost, selectedDate), the      *)
(* requests and timers in flight (pending) and the last toast (notice).    *)
(* activeTab only picks the panel that is rendered and is left out.        *)

(* new Date().toISOString().split('T')[0]: the day the view opens on, with *)
(* the dates already recorded before it.                                   *)
Today == MaxDates + 1
ViewDates == Dates \cup {Today}

NoNotice == [title |-> "none", description |-> "none"]

ViewState(profile, pending) ==
  [profile |-> profile,
   posts |-> {},
   students |-> {},
   attendance |-> {},
   loading |-> TRUE,
   newPost |-> "",
   selectedDate |-> Today,
   pending |-> pending,
   notice |-> NoNotice]

(* No dashboard is open *)
NoView == ViewState([id |-> NULL, class_id |-> NULL], {})

----------------------------------------------------------------------------
(* The record of the last statement: who issued it (uid), the row or key   *)
(* it named, whether the store accepted it (ok) and how many rows it wrote *)
(* (n).                                                                    *)

Done(op, uid, row, ok, n) ==
  [op |-> op, uid |-> uid, row |-> row, ok |-> ok, n |-> n]

Init ==
  /\ authUsers = {}
  /\ classes = SeedClasses
  /\ profiles = {}
  /\ posts = {}
  /\ attendance = {}
  /\ last = Done("init", NULL, [id |-> NULL], TRUE, 0)
  /\ view = NoView

----------------------------------------------------------------------------
(* Identity bootstrap: trigger on_auth_user_created / handle_new_user      *)

(* (NEW.raw_user_meta_data ->> 'role')::user_role raises for a text that   *)
(* is no label of the enum; name is NOT NULL.                              *)
HandleNewUserRaises(newUser) ==
  \/ newUser.metaRole \notin (user_role \cup {NullText})
  \/ COALESCE(newUser.metaName, newUser.email) = NullText
  \/ newUser.id \in ProfileIds

(* Variant: COALESCE(..., 'teacher') *)
handle_new_user_TeacherDefault(newUser) ==
  [id |-> newUser.id,
   name |-> COALESCE(newUser.metaName, newUser.email),
   role |-> COALESCE(newUser.metaRole, "teacher"),
   class_id |-> NULL]

handle_new_user(newUser) ==
  [id |-> newUser.id,
   name |-> COALESCE(newUser.metaName, newUser.email),
   role |-> COALESCE(newUser.metaRole, "student"),
   class_id |-> NULL]

CreateAuthUser(id, metaName, metaRole, email) ==
  LET newUser == [id |-> id, metaName |-> metaName, metaRole |-> metaRole,
              email |-> email]
  IN /\ id \notin authUsers
     /\ IF HandleNewUserRaises(newUser)
        THEN /\ UNCHANGED <<authUsers, profiles>>
             /\ last' = Done("createAuthUser", NULL, newUser, FALSE, 0)
        ELSE /\ authUsers' = authUsers \cup {id}
             /\ profiles' = profiles \cup {handle_new_user(newUser)}
             /\ last' = Done("createAuthUser", NULL, newUser, TRUE, 1)
     /\ UNCHANGED <<classes, posts, attendance, view>>

(* Variant: only posts.teacher_id holds a profile in place *)
ProfileReferenced_PostsOnly(id) == \E p \in posts : p.teacher_id = id

(* DELETE FROM auth.users: profiles.id cascades; posts.teacher_id and      *)
(* attendance.student_id reference profiles(id) with no ON DELETE action,  *)
(* so a referenced profile makes the whole statement fail.                 *)
ProfileReferenced(id) ==
  \/ \E p \in posts : p.teacher_id = id
  \/ \E a \in attendance : a.student_id = id

DeleteAuthUser(id) ==
  /\ id \in authUsers
  /\ IF ProfileReferenced(id)
     THEN /\ UNCHANGED <<authUsers, profiles>>
          /\ last' = Done("deleteAuthUser", NULL, [id |-> id], FALSE, 0)
     ELSE /\ authUsers' = authUsers \ {id}
          /\ profiles' = profiles \ ProfileRows(id)
          /\ last' = Done("deleteAuthUser", NULL, [id |-> id], TRUE, 1)
  /\ UNCHANGED <<classes, posts, attendance, view>>

----------------------------------------------------------------------------
(* Client statements on profiles.  uid is auth.uid() of the session.       *)

(* UPDATE public.profiles SET name, role, class_id WHERE id = target.      *)
(* Rows the caller cannot read or that fail the UPDATE policy's USING are  *)
(* skipped silently; the new row must pass the same expression (no WITH    *)
(* CHECK is given, so USING is used) and the foreign key on class_id.      *)
UpdateProfile(uid, target, name, role, class_id) ==
  LET rows == {r \in ProfileRows(target) :
                 ProfilesSelectPolicy(uid, r) /\ ProfilesUpdatePolicy(uid, r)}
      new(r) == [id |-> r.id, name |-> name, role |-> role,
                 class_id |-> class_id]
      row == [id |-> target]
      ok == /\ \A r \in rows : ProfilesUpdatePolicy(uid, new(r))
                                /\ ProfilesSelectPolicy(uid, new(r))
            /\ (class_id = NULL \/ class_id \in ClassRowIds)
  IN /\ uid \in authUsers
     /\ IF ok
        THEN /\ profiles' = (profiles \ rows) \cup {new(r) : r \in rows}
             /\ last' = Done("updateProfile", uid, row, TRUE, Cardinality(rows))
        ELSE /\ UNCHANGED profiles
             /\ last' = Done("updateProfile", uid, row, FALSE, 0)
     /\ UNCHANGED <<authUsers, classes, posts, attendance, view>>

(* INSERT INTO public.profiles: WITH CHECK of the INSERT policies, the     *)
(* primary key and the foreign key to auth.users.                          *)
InsertProfile(uid, id, name, role, class_id) ==
  LET row == [id |-> id, name |-> name, role |-> role, class_id |-> class_id]
      ok == /\ ProfilesInsertPolicy(uid, row)
            /\ id \notin ProfileIds
            /\ id \in authUsers
            /\ (class_id = NULL \/ class_id \in ClassRowIds)
  IN /\ uid \in authUsers
     /\ IF ok
        THEN /\ profiles' = profiles \cup {row}
             /\ last' = Done("insertProfile", uid, [id |-> id], TRUE, 1)
        ELSE /\ UNCHANGED profiles
             /\ last' = Done("insertProfile", uid, [id |-> id], FALSE, 0)
     /\ UNCHANGED <<authUsers, classes, posts, attendance, view>>

(* DELETE FROM public.profiles WHERE id = target *)
DeleteProfile(uid, target) ==
  LET rows == {r \in ProfileRows(target) :
                 ProfilesSelectPolicy(uid, r) /\ ProfilesDeletePolicy(uid, r)}
      ok == \A r \in rows : ~ProfileReferenced(r.id)
  IN /\ uid \in authUsers
     /\ IF ok
        THEN /\ profiles' = profiles \ rows
             /\ last' = Done("deleteProfile", uid, [id |-> target], TRUE,
                             Cardinality(rows))
        ELSE /\ UNCHANGED profiles
             /\ last' = Done("deleteProfile", uid, [id |-> target], FALSE, 0)
     /\ UNCHANGED <<authUsers, classes, posts, attendance, view>>

----------------------------------------------------------------------------
(* Client statements on posts *)

FreePostIds == PostIds \ {p.id : p \in posts}

(* INSERT INTO public.posts (teacher_id, class_id, ...): WITH CHECK of the *)
(* INSERT policy, NOT NULL and the two foreign keys; id is generated.      *)
(* TeacherDashboard.handleCreatePost issues it with teacher_id =           *)
(* profile.id, the caller's own id, and class_id = profile.class_id.       *)
PostInsertAccepted(uid, row) ==
  /\ PostsInsertPolicy(uid, row)
  /\ row.class_id # NULL
  /\ row.class_id \in ClassRowIds
  /\ row.teacher_id \in ProfileIds

PostInsert(uid, row) ==
  IF PostInsertAccepted(uid, row)
  THEN \E id \in FreePostIds :
         /\ posts' = posts \cup {[id |-> id, teacher_id |-> row.teacher_id,
                                   class_id |-> row.class_id]}
         /\ last' = Done("insertPost", uid, row, TRUE, 1)
  ELSE /\ UNCHANGED posts
       /\ last' = Done("insertPost", uid, row, FALSE, 0)

InsertPost(uid, teacher_id, class_id) ==
  /\ uid \in authUsers
  /\ PostInsert(uid, [teacher_id |-> teacher_id, class_id |-> class_id])
  /\ UNCHANGED <<authUsers, classes, profiles, attendance, view>>

(* UPDATE public.posts SET teacher_id, class_id WHERE id = id.  The        *)
(* statement reads the table, so the SELECT policy applies to the old and  *)
(* the new row next to the UPDATE policy; a new row that fails is an error,*)
(* an old row that fails is skipped.                                       *)
UpdatePost(uid, id, teacher_id, class_id) ==
  LET rows == {p \in posts : /\ p.id = id
                             /\ PostsSelectPolicy(uid, p)
                             /\ PostsUpdatePolicy(uid, p)}
      new == [id |-> id, teacher_id |-> teacher_id, class_id |-> class_id]
      ok == \/ rows = {}
            \/ /\ PostsUpdatePolicy(uid, new)
               /\ PostsSelectPolicy(uid, new)
               /\ class_id # NULL
               /\ class_id \in ClassRowIds
               /\ teacher_id \in ProfileIds
  IN /\ uid \in authUsers
     /\ IF ok
        THEN /\ posts' = IF rows = {} THEN posts ELSE (posts \ rows) \cup {new}
             /\ last' = Done("updatePost", uid, [id |-> id], TRUE, Cardinality(rows))
        ELSE /\ UNCHANGED posts
             /\ last' = Done("updatePost", uid, [id |-> id], FALSE, 0)
     /\ UNCHANGED <<authUsers, classes, profiles, attendance, view>>

(* DELETE FROM public.posts WHERE id = id *)
DeletePost(uid, id) ==
  LET rows == {p \in posts : /\ p.id = id
                             /\ PostsSelectPolicy(uid, p)
                             /\ PostsDeletePolicy(uid, p)}
  IN /\ uid \in authUsers
     /\ posts' = posts \ rows
     /\ last' = Done("deletePost", uid, [id |-> id], TRUE, Cardinality(rows))
     /\ UNCHANGED <<authUsers, classes, profiles, attendance, view>>

----------------------------------------------------------------------------
(* Client statements on attendance *)

Conflicting(row) ==
  {a \in attendance : a.student_id = row.student_id /\ a.date = row.date}

(* WITH CHECK of the INSERT policy; the statement names columns of the     *)
(* table (the conflict target), so the SELECT policies apply to the row    *)
(* as well; student_id references profiles(id).                            *)
AttendanceInsertAccepted(uid, row) ==
  /\ AttendanceInsertPolicy(uid, row)
  /\ AttendanceSelectPolicy(uid, row)
  /\ row.student_id \in ProfileIds

(* USING of the UPDATE policy on the existing row, and, no WITH CHECK      *)
(* being given, the same expression on the new row.                        *)
AttendanceUpdateAccepted(uid, old, new) ==
  /\ AttendanceUpdatePolicy(uid, old)
  /\ AttendanceSelectPolicy(uid, old)
  /\ AttendanceUpdatePolicy(uid, new)
  /\ AttendanceSelectPolicy(uid, new)

(* INSERT ... ON CONFLICT (student_id, date) DO UPDATE SET ...: the INSERT *)
(* policy is checked for the proposed row even when the statement ends as  *)
(* an UPDATE, and on the UPDATE path a failing policy is an error.         *)
Upsert(uid, row) ==
  LET old == Conflicting(row)
      key == row
      ok == /\ AttendanceInsertAccepted(uid, row)
            /\ \A a \in old : AttendanceUpdateAccepted(uid, a, row)
  IN IF ok
     THEN /\ attendance' = (attendance \ old) \cup {row}
          /\ last' = Done("handleMarkAttendance", uid, key, TRUE, 1)
     ELSE /\ UNCHANGED attendance
          /\ last' = Done("handleMarkAttendance", uid, key, FALSE, 0)

(* TeacherDashboard.handleMarkAttendance(studentId, status) on the         *)
(* selectedDate of the view                                                *)
handleMarkAttendance(uid, studentId, selectedDate, status) ==
  /\ uid \in authUsers
  /\ Upsert(uid, [student_id |-> studentId, date |-> selectedDate,
                  status |-> status])
  /\ UNCHANGED <<authUsers, classes, profiles, posts, view>>

(* UPDATE public.attendance SET status WHERE student_id = .. AND date = .. *)
UpdateAttendance(uid, student_id, date, status) ==
  LET row == [student_id |-> student_id, date |-> date, status |-> status]
      key == [student_id |-> student_id, date |-> date]
      rows == {a \in Conflicting(row) :
                 AttendanceSelectPolicy(uid, a) /\ AttendanceUpdatePolicy(uid, a)}
      ok == \A a \in rows : AttendanceUpdateAccepted(uid, a, row)
  IN /\ uid \in authUsers
     /\ IF ok
        THEN /\ attendance' = IF rows = {} THEN attendance
                                           ELSE (attendance \ rows) \cup {row}
             /\ last' = Done("updateAttendance", uid, key, TRUE,
                             Cardinality(rows))
        ELSE /\ UNCHANGED attendance
             /\ last' = Done("updateAttendance", uid, key, FALSE, 0)
     /\ UNCHANGED <<authUsers, classes, profiles, posts, view>>

(* No statement removes an attendance row: the table has no DELETE policy, *)
(* and the dashboards issue no DELETE.                                     *)

----------------------------------------------------------------------------
(* The statements, by the table they write *)

AuthStep ==
  \/ \E id \in UserIds, metaName \in MetaNames, metaRole \in RoleInputs,
        email \in Emails : CreateAuthUser(id, metaName, metaRole, email)
  \/ \E id \in UserIds : DeleteAuthUser(id)

UpdateProfileStep ==
  \E uid \in UserIds, target \in UserIds, name \in Names,
     role \in user_role, class_id \in ClassIds \cup {NULL} :
     UpdateProfile(uid, target, name, role, class_id)

ProfilesStep ==
  \/ UpdateProfileStep
  \/ \E uid \in UserIds, id \in UserIds, name \in Names,
        role \in user_role, class_id \in ClassIds \cup {NULL} :
        InsertProfile(uid, id, name, role, class_id)
  \/ \E uid \in UserIds, target \in UserIds : DeleteProfile(uid, target)

InsertPostStep ==
  \E uid \in UserIds, teacher_id \in UserIds,
     class_id \in ClassIds \cup {NULL} : InsertPost(uid, teacher_id, class_id)

PostsStep ==
  \/ InsertPostStep
  \/ \E uid \in UserIds, id \in PostIds, teacher_id \in UserIds,
        class_id \in ClassIds \cup {NULL} :
        UpdatePost(uid, id, teacher_id, class_id)
  \/ \E uid \in UserIds, id \in PostIds : DeletePost(uid, id)

MarkAttendanceStep ==
  \E uid \in UserIds, studentId \in UserIds, selectedDate \in Dates,
     status \in attendance_status :
     handleMarkAttendance(uid, studentId, selectedDate, status)

AttendanceStep ==
  \/ MarkAttendanceStep
  \/ \E uid \in UserIds, student_id \in UserIds, date \in Dates,
        status \in attendance_status :
        UpdateAttendance(uid, student_id, date, status)

Next == AuthStep \/ ProfilesStep \/ PostsStep \/ AttendanceStep

(* The whole store *)
Spec == Init /\ [][Next]_vars

(* The policies of a table read that table and profiles only, so the       *)
(* claims about one table are checked with the statements on auth.users,   *)
(* profiles and that table.                                                *)
SpecProfiles == Init /\ [][AuthStep \/ ProfilesStep]_vars

SpecPosts == Init /\ [][AuthStep \/ UpdateProfileStep \/ PostsStep]_vars

SpecAttendance ==
  Init /\ [][AuthStep \/ UpdateProfileStep \/ AttendanceStep]_vars

(* Deleting an identity against rows that reference its profile: the       *)
(* statements that create such rows, and the delete.                       *)
SpecCascade ==
  Init /\ [][AuthStep \/ UpdateProfileStep \/ InsertPostStep
                \/ MarkAttendanceStep]_vars

----------------------------------------------------------------------------
(* TeacherDashboard: requests, answers and the handlers' continuations *)

MaxPending == 1

(* The three calls of the mount effect *)
MountCalls == 3

Viewer == view.profile.id

Tags == 1..(IF MaxPending > MountCalls THEN MaxPending ELSE MountCalls)

UsedTags == {i.n : i \in view.pending}

FreeTag == CHOOSE n \in Tags \ UsedTags : \A m \in Tags \ UsedTags : n <= m

CanSend == Cardinality(view.pending) < MaxPending

(* A call in flight: an awaited supabase statement, or the timer of the    *)
(* date input.  date is the selectedDate the calling closure captured.     *)
Request(n, kind, date, student, status) ==
  [n |-> n, kind |-> kind, date |-> date, student |-> student,
   status |-> status, stage |-> "sent", error |-> FALSE,
   ids |-> {}, rows |-> {}]

Answer(item, error, ids, rows) ==
  [item EXCEPT !.stage = "answered", !.error = error,
               !.ids = ids, !.rows = rows]

Replace(item, new) == (view.pending \ {item}) \cup {new}

Sent(kinds) == {i \in view.pending : i.stage = "sent" /\ i.kind \in kinds}

Answered(kind) ==
  {i \in view.pending : i.stage = "answered" /\ i.kind = kind}

ErrorNotice(description) == [title |-> "Error", description |-> description]

SuccessNotice(description) ==
  [title |-> "Success", description |-> description]

(* from('posts').select(...).eq('teacher_id', profile.id) *)
fetchPostsQuery(uid, teacher_id) ==
  {p.id : p \in {q \in SelectPosts(uid) : q.teacher_id = teacher_id}}

(* from('profiles').select('id, name')                                     *)
(*   .eq('class_id', profile.class_id).eq('role', 'student')               *)
fetchStudentsQuery(uid, class_id) ==
  {r.id : r \in {q \in SelectProfiles(uid) :
                   q.class_id = class_id /\ q.role = "student"}}

(* from('attendance').select(...).eq('date', selectedDate) *)
fetchAttendanceQuery(uid, date) ==
  {a \in SelectAttendance(uid) : a.date = date}

(* if (error) toast(...) else setX(data || []) *)
ApplyFetch_ClearOnError(old, error, data) == IF error THEN {} ELSE data

ApplyFetch(old, error, data) == IF error THEN old ELSE data

(* useEffect(() => { fetchPosts(); fetchStudents(); fetchAttendance(); }, []) *)
(* fetchStudents returns before its statement when profile.class_id is null. *)
MountRequests(profile) ==
  {Request(1, "fetchPosts", NULL, NULL, "")}
    \cup (IF profile.class_id = NULL THEN {}
          ELSE {Request(2, "fetchStudents", NULL, NULL, "")})
    \cup {Request(3, "fetchAttendance", Today, NULL, "")}

(* The server evaluates a SELECT of the view for the signed-in user *)
ServerSelects(item) ==
  /\ item \in Sent({"fetchPosts", "fetchStudents", "fetchAttendance"})
  /\ Viewer \in authUsers
  /\ view' = [view EXCEPT !.pending = Replace(item,
       Answer(item, FALSE,
              IF item.kind = "fetchPosts"
                THEN fetchPostsQuery(Viewer, view.profile.id)
                ELSE IF item.kind = "fetchStudents"
                       THEN fetchStudentsQuery(Viewer, view.profile.class_id)
                       ELSE {},
              IF item.kind = "fetchAttendance"
                THEN fetchAttendanceQuery(Viewer, item.date)
                ELSE {}))]
  /\ UNCHANGED <<authUsers, classes, profiles, posts, attendance, last>>

(* The server runs the INSERT of handleCreatePost *)
ServerInsertsPost(item) ==
  /\ item \in Sent({"insertPost"})
  /\ Viewer \in authUsers
  /\ PostInsert(Viewer, [teacher_id |-> view.profile.id,
                         class_id |-> view.profile.class_id])
  /\ view' = [view EXCEPT
                !.pending = Replace(item, Answer(item, ~last'.ok, {}, {}))]
  /\ UNCHANGED <<authUsers, classes, profiles, attendance>>

(* The server runs the upsert of handleMarkAttendance *)
ServerUpserts(item) ==
  /\ item \in Sent({"upsert"})
  /\ Viewer \in authUsers
  /\ Upsert(Viewer, [student_id |-> item.student, date |-> item.date,
                     status |-> item.status])
  /\ view' = [view EXCEPT
                !.pending = Replace(item, Answer(item, ~last'.ok, {}, {}))]
  /\ UNCHANGED <<authUsers, classes, profiles, posts>>

(* A statement that never runs: the request fails on the way, and the      *)
(* awaited call resolves with { error } and no data.                       *)
RequestFails(item) ==
  /\ item \in Sent({"fetchPosts", "fetchStudents", "fetchAttendance",
                    "insertPost", "upsert"})
  /\ view' = [view EXCEPT
                !.pending = Replace(item, Answer(item, TRUE, {}, {}))]
  /\ UNCHANGED <<authUsers, classes, profiles, posts, attendance, last>>

(* fetchPosts after its await *)
fetchPostsReturns(item) ==
  /\ item \in Answered("fetchPosts")
  /\ view' = [view EXCEPT
       !.posts = ApplyFetch(@, item.error, item.ids),
       !.notice = IF item.error THEN ErrorNotice("Failed to fetch posts")
                                ELSE @,
       !.pending = @ \ {item}]
  /\ UNCHANGED <<authUsers, classes, profiles, posts, attendance, last>>

(* fetchStudents after its await *)
fetchStudentsReturns(item) ==
  /\ item \in Answered("fetchStudents")
  /\ view' = [view EXCEPT
       !.students = ApplyFetch(@, item.error, item.ids),
       !.notice = IF item.error THEN ErrorNotice("Failed to fetch students")
                                ELSE @,
       !.pending = @ \ {item}]
  /\ UNCHANGED <<authUsers, classes, profiles, posts, attendance, last>>

(* fetchAttendance after its await; setLoading(false) on both paths *)
fetchAttendanceReturns(item) ==
  /\ item \in Answered("fetchAttendance")
  /\ view' = [view EXCEPT
       !.attendance = ApplyFetch(@, item.error, item.rows),
       !.notice = IF item.error
                    THEN ErrorNotice("Failed to fetch attendance")
                    ELSE @,
       !.loading = FALSE,
       !.pending = @ \ {item}]
  /\ UNCHANGED <<authUsers, classes, profiles, posts, attendance, last>>

(* The inputs of the post form: setNewPost({ ...newPost, title | content }) *)
newPostTyped ==
  /\ ~view.loading
  /\ view.newPost = ""
  /\ view' = [view EXCEPT !.newPost = "t"]
  /\ UNCHANGED <<authUsers, classes, profiles, posts, attendance, last>>

(* handleCreatePost up to its await; both inputs of the form are required *)
handleCreatePost ==
  /\ ~view.loading
  /\ view.newPost # ""
  /\ IF view.profile.class_id = NULL
     THEN view' = [view EXCEPT !.notice =
            ErrorNotice("You must be assigned to a class to create posts")]
     ELSE /\ CanSend
          /\ view' = [view EXCEPT !.pending =
               @ \cup {Request(FreeTag, "insertPost", NULL, NULL, "")}]
  /\ UNCHANGED <<authUsers, classes, profiles, posts, attendance, last>>

(* handleCreatePost after its await *)
handleCreatePostReturns(item) ==
  /\ item \in Answered("insertPost")
  /\ view' = IF item.error
             THEN [view EXCEPT
                     !.notice = ErrorNotice("Failed to create post"),
                     !.pending = @ \ {item}]
             ELSE [view EXCEPT
                     !.notice = SuccessNotice("Post created successfully"),
                     !.newPost = "",
                     !.pending = Replace(item,
                        Request(item.n, "fetchPosts", NULL, NULL, ""))]
  /\ UNCHANGED <<authUsers, classes, profiles, posts, attendance, last>>

(* A Present or Absent button of the grid: handleMarkAttendance(student.id, *)
(* status) of the current render, up to its await                           *)
handleMarkAttendanceCalled(studentId, status) ==
  /\ ~view.loading
  /\ studentId \in view.students
  /\ CanSend
  /\ view' = [view EXCEPT !.pending =
       @ \cup {Request(FreeTag, "upsert", view.selectedDate, studentId,
                       status)}]
  /\ UNCHANGED <<authUsers, classes, profiles, posts, attendance, last>>

(* handleMarkAttendance after its await; its fetchAttendance is the one of *)
(* the render the handler was created in.                                  *)
handleMarkAttendanceReturns(item) ==
  /\ item \in Answered("upsert")
  /\ view' = IF item.error
             THEN [view EXCEPT
                     !.notice = ErrorNotice("Failed to mark attendance"),
                     !.pending = @ \ {item}]
             ELSE [view EXCEPT
                     !.notice = SuccessNotice("Attendance marked successfully"),
                     !.pending = Replace(item,
                        Request(item.n, "fetchAttendance", item.date, NULL,
                                ""))]
  /\ UNCHANGED <<authUsers, classes, profiles, posts, attendance, last>>

(* onChange of the date input: setSelectedDate(e.target.value);            *)
(* setTimeout(() => fetchAttendance(), 100).  The arrow function closes    *)
(* over the fetchAttendance of the render that created the handler, which  *)
(* reads that render's selectedDate, the value before the change.          *)
selectedDateChanged(value) ==
  /\ ~view.loading
  /\ value # view.selectedDate
  /\ CanSend
  /\ view' = [view EXCEPT
       !.selectedDate = value,
       !.pending = @ \cup {Request(FreeTag, "timer", view.selectedDate,
                                   NULL, "")}]
  /\ UNCHANGED <<authUsers, classes, profiles, posts, attendance, last>>

(* The timer expires: fetchAttendance() up to its await *)
TimerFires(item) ==
  /\ item \in Sent({"timer"})
  /\ view' = [view EXCEPT !.pending = Replace(item,
       Request(item.n, "fetchAttendance", item.date, NULL, ""))]
  /\ UNCHANGED <<authUsers, classes, profiles, posts, attendance, last>>

ServerStep ==
  \/ \E item \in view.pending : ServerSelects(item)
  \/ \E item \in view.pending : ServerInsertsPost(item)
  \/ \E item \in view.pending : ServerUpserts(item)
  \/ \E item \in view.pending : RequestFails(item)

ReturnStep ==
  \/ \E item \in view.pending : fetchPostsReturns(item)
  \/ \E item \in view.pending : fetchStudentsReturns(item)
  \/ \E item \in view.pending : fetchAttendanceReturns(item)
  \/ \E item \in view.pending : handleCreatePostReturns(item)
  \/ \E item \in view.pending : handleMarkAttendanceReturns(item)
  \/ \E item \in view.pending : TimerFires(item)

UserStep ==
  \/ newPostTyped
  \/ handleCreatePost
  \/ \E studentId \in UserIds, status \in attendance_status :
        handleMarkAttendanceCalled(studentId, status)
  \/ \E value \in ViewDates : selectedDateChanged(value)

(* The store a dashboard opens on: a teacher of any class or of none, the   *)
(* other identities students of Class A, nothing posted or marked yet, and *)
(* the teacher's dashboard just mounted with the teacher's profile row.    *)
InitTeacherView ==
  /\ authUsers = UserIds
  /\ classes = SeedClasses
  /\ posts = {}
  /\ attendance = {}
  /\ last = Done("init", NULL, [id |-> NULL], TRUE, 0)
  /\ \E t \in UserIds, name \in Names, class_id \in ClassIds \cup {NULL} :
        /\ profiles =
             {[id |-> u, name |-> name,
               role |-> IF u = t THEN "teacher" ELSE "student",
               class_id |-> IF u = t THEN class_id ELSE 1] : u \in UserIds}
        /\ view = ViewState([id |-> t, class_id |-> class_id],
                            MountRequests([id |-> t, class_id |-> class_id]))

(* The viewer's role changes while the dashboard is open: the update of    *)
(* the viewer's own profile row.  Rows of other users are out of the reach *)
(* of the viewer's statements, and the profile prop is not reloaded.       *)
ViewerRoleChanges ==
  \E r \in ProfileRows(Viewer), role \in user_role :
     /\ role # r.role
     /\ UpdateProfile(Viewer, Viewer, r.name, role, r.class_id)

(* One teacher's dashboard over the store *)
SpecTeacherView ==
  InitTeacherView
    /\ [][ViewerRoleChanges \/ ServerStep \/ ReturnStep \/ UserStep]_vars

(* The statements the server runs: every request is answered *)
AnsweredStep ==
  \/ \E item \in view.pending : ServerSelects(item)
  \/ \E item \in view.pending : ServerInsertsPost(item)
  \/ \E item \in view.pending : ServerUpserts(item)

(* The dashboard when no request fails on the way: an error can only be    *)
(* the server's rejection of an insert or an upsert, and every fetch       *)
(* completes with data.                                                    *)
SpecTeacherViewAnswered ==
  InitTeacherView
    /\ [][ViewerRoleChanges \/ AnsweredStep \/ ReturnStep \/ UserStep]_vars

----------------------------------------------------------------------------
(* Properties *)

(* The condition the specification gives for a teacher's access to the     *)
(* attendance of a student: t is a teacher and the profile of student sid  *)
(* has t's class.                                                          *)
TeacherOfClassOf(t, sid) ==
  \E pt \in ProfileRows(t), ps \in ProfileRows(sid) :
     /\ pt.role = "teacher"
     /\ pt.class_id # NULL
     /\ ps.class_id = pt.class_id

(* C1: a teacher reads and writes the attendance rows of the students of   *)
(* their own class: every attendance row of a profile that shares the      *)
(* class of teacher T is returned to T, and a mark by T for such a profile *)
(* is accepted.                                                            *)
C1_TeacherReadsAndWritesOwnClass ==
  /\ \A t \in ProfileIds : \A a \in attendance :
        TeacherOfClassOf(t, a.student_id) => a \in SelectAttendance(t)
  /\ (last.op = "handleMarkAttendance"
        /\ TeacherOfClassOf(last.uid, last.row.student_id)) => last.ok

(* C2: no client statement changes the role of a profile row: a step of a  *)
(* signed-in caller leaves every profile that exists before and after it   *)
(* with the role it had.                                                   *)
C2_RoleImmutable ==
  [][last'.uid # NULL =>
       \A p \in profiles : \A q \in profiles' : q.id = p.id => q.role = p.role]_vars

(* C3: after a mark by a teacher for a student of their class, exactly one *)
(* attendance row exists for the (student, date) pair and it carries the   *)
(* status of that mark; the mark is never rejected.                        *)
C3_MarkLeavesOneRowWithLastStatus ==
  (last.op = "handleMarkAttendance"
     /\ TeacherOfClassOf(last.uid, last.row.student_id)) =>
    /\ last.ok
    /\ Conflicting(last.row) = {last.row}

(* C4 as stated: in every state the author of every post belongs to the    *)
(* class the post targets; here for the authors that are (still) teachers. *)
C4_AuthorAlwaysTeacherOfPostClass ==
  \A p \in posts : \A t \in ProfileRows(p.teacher_id) :
     t.role = "teacher" => t.class_id = p.class_id

(* C4: a post row that an INSERT adds has, at that moment, an author whose *)
(* profile has role teacher and the class of the post.                     *)
C4_AuthorTeacherOfPostClassAtInsert ==
  [][\A p \in posts' :
       (\A q \in posts : q.id # p.id) =>
         \E t \in profiles' :
            /\ t.id = p.teacher_id
            /\ t.role = "teacher"
            /\ t.class_id = p.class_id]_vars

C4_Witness ==
  /\ last.op = "insertPost"
  /\ last.ok
  /\ \E p \in posts : p.teacher_id = last.uid /\ p.class_id = last.row.class_id

(* C5 as stated: deleting an auth identity always succeeds and removes the *)
(* profile row.                                                            *)
C5_DeleteAlwaysRemovesProfile ==
  last.op = "deleteAuthUser" => (last.ok /\ last.row.id \notin ProfileIds)

(* C5: deleting an auth identity whose profile no post and no attendance   *)
(* row references removes the identity and exactly its profile row; when a *)
(* post or an attendance row references the profile the delete is rejected *)
(* and nothing changes.  In both cases classes, posts, attendance and the  *)
(* other profiles are unchanged.                                           *)
C5_DeleteRemovesUnreferencedProfileOnly ==
  [][last'.op = "deleteAuthUser" =>
       LET id == last'.row.id
           referenced == \/ \E p \in posts : p.teacher_id = id
                         \/ \E a \in attendance : a.student_id = id
       IN /\ UNCHANGED <<classes, posts, attendance>>
          /\ {r \in profiles' : r.id # id} = {r \in profiles : r.id # id}
          /\ IF referenced
             THEN ~last'.ok /\ UNCHANGED <<authUsers, profiles>>
             ELSE /\ last'.ok
                  /\ authUsers' = authUsers \ {id}
                  /\ \A r \in profiles' : r.id # id]_vars

C5_Witness ==
  /\ last.op = "deleteAuthUser"
  /\ last.ok
  /\ last.row.id \notin ProfileIds
  /\ posts # {}
  /\ attendance # {}

(* C6: a post INSERT is accepted only when the row's teacher_id is the     *)
(* caller, the caller's profile has role teacher and the caller's class is *)
(* the row's class; an accepted INSERT adds that one row, a rejected one   *)
(* leaves posts unchanged.                                                 *)
C6_PostInsertOnlyByTeacherOfClass ==
  [][last'.op = "insertPost" =>
       LET u == last'.uid
           row == last'.row
       IN IF last'.ok
          THEN /\ row.teacher_id = u
               /\ \E t \in ProfileRows(u) :
                     t.role = "teacher" /\ t.class_id = row.class_id
               /\ \E id \in PostIds \ {p.id : p \in posts} :
                     posts' = posts \cup {[id |-> id, teacher_id |-> u,
                                           class_id |-> row.class_id]}
          ELSE posts' = posts]_vars

(* A teacher names another profile as teacher_id, for the teacher's own    *)
(* class: rejected.                                                        *)
C6_Witness ==
  /\ last.op = "insertPost"
  /\ ~last.ok
  /\ last.row.teacher_id # last.uid
  /\ last.row.teacher_id \in ProfileIds
  /\ \E t \in ProfileRows(last.uid) :
        t.role = "teacher" /\ t.class_id = last.row.class_id

(* C7: every auth identity has exactly one profile row and every profile   *)
(* row belongs to an identity; the row the trigger creates has the         *)
(* metadata name, or the email when there is none, and role student unless *)
(* the metadata asks for teacher.                                          *)
C7_BootstrapOneProfilePerIdentity ==
  /\ ProfileIds = authUsers
  /\ \A u \in authUsers : Cardinality(ProfileRows(u)) = 1
  /\ (last.op = "createAuthUser" /\ last.ok) =>
        /\ last.row.id \in authUsers
        /\ \A r \in ProfileRows(last.row.id) :
              /\ r.name = IF last.row.metaName # NullText
                           THEN last.row.metaName ELSE last.row.email
              /\ r.role = IF last.row.metaRole = "teacher"
                           THEN "teacher" ELSE "student"

C7_Witness ==
  /\ last.op = "createAuthUser"
  /\ last.ok
  /\ last.row.metaName = NullText
  /\ last.row.metaRole = NullText
  /\ \E r \in ProfileRows(last.row.id) :
        r.role = "student" /\ r.name = last.row.email

(* C8: every attendance row a SELECT returns to a caller whose profile has *)
(* role student is a row of that caller.                                   *)
C8_StudentSeesOwnAttendanceOnly ==
  \A s \in profiles :
     s.role = "student" =>
       \A a \in SelectAttendance(s.id) : a.student_id = s.id

(* A student with a row of their own, and a row of a classmate that the    *)
(* store keeps from them.                                                  *)
C8_Witness ==
  \E s \in profiles, c \in profiles :
     /\ s.role = "student"
     /\ c.id # s.id
     /\ s.class_id # NULL
     /\ c.class_id = s.class_id
     /\ \E a \in SelectAttendance(s.id) : a.student_id = s.id
     /\ \E a \in attendance \ SelectAttendance(s.id) : a.student_id = c.id

(* C9: a profile can SELECT a class row iff the row is the profile's       *)
(* class; a caller sees at most one class row, and none without a class.   *)
C9_ClassVisibleIffOwnClass ==
  \A p \in profiles :
     /\ \A c \in classes : (c \in SelectClasses(p.id)) <=> (p.class_id = c.id)
     /\ Cardinality(SelectClasses(p.id)) <= 1
     /\ p.class_id = NULL => SelectClasses(p.id) = {}

C9_Witness ==
  \E p \in profiles, q \in profiles :
     /\ p.class_id # NULL
     /\ q.class_id # NULL
     /\ q.class_id # p.class_id
     /\ Cardinality(SelectClasses(p.id)) = 1
     /\ \A c \in SelectClasses(p.id) : c.id = p.class_id

(* C10: a SELECT on profiles returns the caller's own row only; an UPDATE  *)
(* by a caller changes no row of another profile; no client INSERT or      *)
(* DELETE on profiles changes the table, so a profile row appears only     *)
(* with the trigger on auth.users.                                         *)
C10_SelfAccessStep ==
  /\ last'.op = "updateProfile" =>
        {r \in profiles' : r.id # last'.uid} = {r \in profiles : r.id # last'.uid}
  /\ last'.op \in {"insertProfile", "deleteProfile"} =>
        (profiles' = profiles /\ last'.n = 0)
  /\ (\E r \in profiles' : r.id \notin ProfileIds) => last'.op = "createAuthUser"

C10_ProfilesSelfAccessOnly ==
  /\ [](\A u \in authUsers : \A r \in SelectProfiles(u) : r.id = u)
  /\ [][C10_SelfAccessStep]_vars

(* A caller updates the row of another existing profile: no row changes *)
C10_Witness ==
  /\ last.op = "updateProfile"
  /\ last.uid # last.row.id
  /\ last.row.id \in ProfileIds
  /\ last.n = 0

(* C11: a post row is returned to a caller iff its class_id is the         *)
(* class_id of the caller's own profile; a caller without a class sees no  *)
(* post, and a post of another class is never returned, the caller's own   *)
(* posts included.                                                         *)
C11_PostVisibleIffOwnClass ==
  \A u \in profiles :
     /\ \A p \in posts :
          (p \in SelectPosts(u.id)) <=>
            (u.class_id # NULL /\ p.class_id = u.class_id)
     /\ u.class_id = NULL => SelectPosts(u.id) = {}

(* An author who moved to another class no longer reads their own post *)
C11_Witness ==
  \E u \in profiles : \E p \in posts :
     /\ p.teacher_id = u.id
     /\ u.class_id # NULL
     /\ p.class_id # u.class_id
     /\ p \notin SelectPosts(u.id)

----------------------------------------------------------------------------
(* TeacherDashboard *)

(* The client state the handlers own *)
ClientState(v) ==
  <<v.posts, v.attendance, v.students, v.newPost, v.selectedDate>>

(* The continuation of the answered call item runs in this step *)
Returned(item) ==
  /\ item \in view.pending
  /\ item.stage = "answered"
  /\ item \notin view'.pending

Refetch(item) ==
  Request(item.n,
          IF item.kind = "insertPost" THEN "fetchPosts" ELSE "fetchAttendance",
          IF item.kind = "insertPost" THEN NULL ELSE item.date,
          NULL, "")

C12_Step ==
  \A item \in view.pending :
     Returned(item) =>
       /\ (item.error /\ item.kind \in {"insertPost", "upsert"}) =>
            /\ view'.notice.title = "Error"
            /\ view'.pending = view.pending \ {item}
            /\ ClientState(view') = ClientState(view)
       /\ (~item.error /\ item.kind \in {"insertPost", "upsert"}) =>
            /\ view'.notice.title = "Success"
            /\ view'.pending = (view.pending \ {item}) \cup {Refetch(item)}
       /\ (item.error /\ item.kind \in {"fetchPosts", "fetchStudents",
                                        "fetchAttendance"}) =>
            /\ view'.notice.title = "Error"
            /\ view'.pending = view.pending \ {item}
            /\ ClientState(view') = ClientState(view)

(* C12: in the teacher view a mutation (handleCreatePost,                  *)
(* handleMarkAttendance) that returns an error shows an error             *)
(* notification, issues no re-fetch and no retry and leaves posts,         *)
(* attendance, students, the newPost form and selectedDate as they were; a *)
(* mutation that succeeds is followed by the re-fetch of exactly the       *)
(* affected collection (fetchPosts after the insert, fetchAttendance after *)
(* the upsert); a fetch that fails leaves the loaded collection as it was. *)
C12_ErrorsLeaveStateSuccessRefetches == [][C12_Step]_vars

(* A mark the server rejected has returned: the error toast is up, nothing *)
(* is in flight, and the list an earlier successful mark re-fetched is     *)
(* still loaded.                                                           *)
C12_Witness ==
  /\ last.op = "handleMarkAttendance"
  /\ ~last.ok
  /\ view.notice = ErrorNotice("Failed to mark attendance")
  /\ view.pending = {}
  /\ view.attendance # {}

(* The students of the class the dashboard was opened for *)
ClassStudents ==
  {r.id : r \in {q \in profiles : /\ q.role = "student"
                                  /\ view.profile.class_id # NULL
                                  /\ q.class_id = view.profile.class_id}}

C13_Step ==
  \A item \in Sent({"fetchStudents"}) :
     \A a \in view'.pending :
        (a.n = item.n /\ a.stage = "answered" /\ ~a.error) =>
           ClassStudents \subseteq a.ids

(* C13: the roster the teacher view loads with fetchStudents, evaluated    *)
(* under the access predicates of profiles, holds every profile with role  *)
(* student whose class_id is the teacher's class_id, so that the grid      *)
(* lists the students of the class and handleMarkAttendance can be called  *)
(* for them.                                                               *)
C13_RosterHoldsEveryClassStudent == [][C13_Step]_vars

(* No fetchAttendance is outstanding: none sent or answered, no timer that *)
(* will call one, no upsert whose continuation will.                       *)
AttendanceSettled ==
  /\ ~view.loading
  /\ \A item \in view.pending :
        item.kind \notin {"timer", "fetchAttendance", "upsert"}

(* getAttendanceStatus(studentId): attendance.find(a => a.student_id ===   *)
(* studentId)?.status over the list in state, whatever the date of a.      *)
getAttendanceStatus(studentId) ==
  {a.status : a \in {b \in view.attendance : b.student_id = studentId}}

(* C14: in the teacher view, once the teacher has changed the selected     *)
(* date and every outstanding fetchAttendance has completed successfully,  *)
(* the attendance list in state is the set of visible attendance records   *)
(* of the currently selected date, never those of a date selected before,  *)
(* and the status highlighted for a student is the one stored for the      *)
(* student and selectedDate, in whatever order the delayed fetches and     *)
(* their responses complete.                                               *)
C14_AttendanceListIsOfSelectedDate ==
  (AttendanceSettled /\ view.selectedDate # Today) =>
     /\ view.attendance = fetchAttendanceQuery(Viewer, view.selectedDate)
     /\ \A studentId \in view.students :
           getAttendanceStatus(studentId) =
             {a.status : a \in {b \in SelectAttendance(Viewer) :
                                  /\ b.student_id = studentId
                                  /\ b.date = view.selectedDate}}
====
